---- MODULE Spec2Model ----
(***************************************************************************)
(* Model of the serverless ETL repository:                                 *)
(*   - src/lambda/api_ingestion/handler.py  (API ingestion Lambda)         *)
(*   - src/glue/jobs/raw_to_processed.py    (Glue job raw -> processed)    *)
(* Spec is one invocation of the ingestion Lambda, SpecShared is two       *)
(* invocations sharing the secret and the raw bucket, SpecGlue is one run  *)
(* of the Glue job.                                                        *)
(***************************************************************************)
EXTENDS Integers, Sequences, FiniteSets, TLC

VARIABLES
    \* ---- ingestion Lambda ----
    secret,      \* the SecretString of API_CONFIG_SECRET: the configured source names
    clock,       \* the wall clock read by datetime.utcnow(): [date, half]
    s3,          \* RAW_BUCKET: object key -> object body
    lastPut,     \* per object key: the invocation whose put_object came last, and its body
    puts,        \* per invocation: the number of objects its put_object calls stored
    requests,    \* per invocation: the sources an HTTP GET was issued for, in order
    pc,          \* per invocation: position in handler(): "idle", "config" (line 183),
                 \* "loop" (line 191), "returned" (line 218), "fatal" (line 222)
    event,       \* per invocation: event.get('source_name') (None when absent)
    timestamp,   \* per invocation: handler's local `timestamp`
    sources,     \* per invocation: handler's local `sources`
    idx,         \* per invocation: position of the for loop in `sources`
    results,     \* per invocation: handler's local `results`
    errors,      \* per invocation: handler's local `errors`
    response,    \* per invocation: the value handler() returned
    \* ---- Glue job ----
    schema,          \* the catalog table's columns and the type of 'id'
    stringTypeStr,   \* what str(f.dataType) gives for a string column: 'StringType',
                     \* or 'StringType()' from PySpark 3.3 on
    table,           \* the rows of SOURCE_DATABASE.SOURCE_TABLE
    gpc,             \* position in main()
    raw_df,          \* main's raw_df
    deduped,         \* clean_data's `cleaned` after the duplicate drop (line 71)
    cleaned_df,      \* main's cleaned_df
    deduped_again,   \* the duplicate drop's result when df.count() runs the plan again
    with_audit,      \* main's with_audit
    with_partitions, \* main's with_partitions
    processed,       \* the rows written under TARGET_BUCKET/TARGET_PREFIX
    row_count        \* main's row_count (NoCount until it is set)

ingestVars == <<secret, clock, s3, lastPut, puts, requests, pc, event,
                timestamp, sources, idx, results, errors, response>>

glueVars == <<schema, stringTypeStr, table, gpc, raw_df, deduped, cleaned_df,
              deduped_again, with_audit, with_partitions, processed, row_count>>

vars == <<ingestVars, glueVars>>

\* A falsy event field: the key is absent, or the empty string
None == << >>

\* The local `timestamp` of a handler that has not run yet
NoTime == [year |-> 0, month |-> 0, day |-> 0, hour |-> 0, minute |-> 0,
           second |-> 0, microsecond |-> 0]

----------------------------------------------------------------------------
(* Bounds *)

MaxSources == 3     \* longest configured source list
MaxBatch == 2       \* most rows in the catalog table
MaxTicks == 2       \* clock advances (half seconds, date changes) per behaviour

----------------------------------------------------------------------------
(* Text: a string is a sequence of one-character strings *)

Digits == <<"0", "1", "2", "3", "4", "5", "6", "7", "8", "9">>

Digit(n) == Digits[n + 1]

RECURSIVE Dec(_)
\* str(n) / f"{n}": decimal without padding
Dec(n) == IF n < 10 THEN <<Digit(n)>> ELSE Dec(n \div 10) \o <<Digit(n % 10)>>

RECURSIVE Pad(_, _)
\* f"{n:0wd}" / strftime fields: decimal zero-padded to at least w digits
Pad(n, w) == IF w <= 1 THEN Dec(n) ELSE
             IF Len(Dec(n)) >= w THEN Dec(n)
             ELSE <<"0">> \o Pad(n, w - 1)

----------------------------------------------------------------------------
(* Wall clock: datetime.utcnow() *)

\* Calendar dates the clock passes through (1/11 and 11/1 share their digits)
Dates == << [year |-> 2024, month |-> 1, day |-> 11],
            [year |-> 2024, month |-> 11, day |-> 1] >>

\* Seconds since midnight at which the clock starts: 10:59:59
StartOfDay == (10 * 3600) + (59 * 60) + 59

\* The datetime the clock shows; the clock advances in half seconds
DateTime(c) ==
    LET secs == StartOfDay + (c.half \div 2)
    IN  [ year        |-> Dates[c.date].year,
          month       |-> Dates[c.date].month,
          day         |-> Dates[c.date].day,
          hour        |-> (secs \div 3600) % 24,
          minute      |-> (secs \div 60) % 60,
          second      |-> secs % 60,
          microsecond |-> (c.half % 2) * 500000 ]

\* timestamp.strftime('%Y%m%d_%H%M%S')
StrfCompact(t) ==
    Pad(t.year, 4) \o Pad(t.month, 2) \o Pad(t.day, 2) \o <<"_">>
    \o Pad(t.hour, 2) \o Pad(t.minute, 2) \o Pad(t.second, 2)

\* timestamp.isoformat(): the fraction is printed only when it is not zero
isoformat(t) ==
    Pad(t.year, 4) \o <<"-">> \o Pad(t.month, 2) \o <<"-">> \o Pad(t.day, 2)
    \o <<"T">> \o Pad(t.hour, 2) \o <<":">> \o Pad(t.minute, 2) \o <<":">>
    \o Pad(t.second, 2)
    \o (IF t.microsecond = 0 THEN <<>> ELSE <<".">> \o Pad(t.microsecond, 6))

\* The timestamp without its sub-second part
TruncSecond(t) == [t EXCEPT !.microsecond = 0]

----------------------------------------------------------------------------
(* upload_to_s3 *)

\* f"{source_name}/year=.../month=.../day=.../hour=.../"
PartitionPath(source_name, t) ==
    source_name \o <<"/">>
    \o <<"y", "e", "a", "r", "=">> \o Dec(t.year) \o <<"/">>
    \o <<"m", "o", "n", "t", "h", "=">> \o Pad(t.month, 2) \o <<"/">>
    \o <<"d", "a", "y", "=">> \o Pad(t.day, 2) \o <<"/">>
    \o <<"h", "o", "u", "r", "=">> \o Pad(t.hour, 2) \o <<"/">>

\* A file name that also carries the microseconds
FilenameWithMicroseconds(source_name, t) ==
    source_name \o <<"_">> \o StrfCompact(t) \o Pad(t.microsecond, 6)
    \o <<".", "j", "s", "o", "n">>

\* f"{source_name}_{timestamp.strftime('%Y%m%d_%H%M%S')}.json"
Filename(source_name, t) ==
    source_name \o <<"_">> \o StrfCompact(t) \o <<".", "j", "s", "o", "n">>

ObjectKey(source_name, t) == PartitionPath(source_name, t) \o Filename(source_name, t)

\* len(data) if isinstance(data, list) else 1
RecordCount(data) == IF data.isList THEN Len(data.items) ELSE 1

\* data_with_metadata
DataWithMetadata(data, source_name, t) ==
    [ data     |-> data,
      metadata |-> [ source         |-> source_name,
                     ingestion_time |-> isoformat(t),
                     record_count   |-> RecordCount(data) ] ]

\* s3_client.put_object(Bucket, Key, Body): the bucket holds the last body put
PutObject(bucket, key, body) ==
    [k \in DOMAIN bucket \cup {key} |-> IF k = key THEN body ELSE bucket[k]]

----------------------------------------------------------------------------
(* Glue job: column values *)

\* A cell is NULL or holds a value; a string value is a sequence of characters
NullStr == [null |-> TRUE, v |-> << >>]
NullNum == [null |-> TRUE, v |-> 0]
Str(chars) == [null |-> FALSE, v |-> chars]
Num(n) == [null |-> FALSE, v |-> n]

NoCount == -1

RECURSIVE LTrim(_)
LTrim(chars) == IF chars # << >> /\ Head(chars) = " " THEN LTrim(Tail(chars)) ELSE chars

RECURSIVE RTrim(_)
RTrim(chars) ==
    IF chars # << >> /\ chars[Len(chars)] = " "
    THEN RTrim(SubSeq(chars, 1, Len(chars) - 1))
    ELSE chars

\* F.trim: spaces are removed from both ends; NULL stays NULL
Trim(cell) == IF cell.null THEN cell ELSE Str(LTrim(RTrim(cell.v)))

\* Event dates a 'timestamp' value can carry, in chronological order
EventDates == << [year |-> 2024, month |-> 3, day |-> 15],
                 [year |-> 2024, month |-> 12, day |-> 1] >>

\* F.year / F.month / F.dayofmonth: NULL for a NULL timestamp
YearOf(ts) == IF ts.null THEN NullNum ELSE Num(EventDates[ts.v].year)
MonthOf(ts) == IF ts.null THEN NullNum ELSE Num(EventDates[ts.v].month)
DayOfMonth(ts) == IF ts.null THEN NullNum ELSE Num(EventDates[ts.v].day)

\* datetime.utcnow() when add_partitions runs
ProcessingDate == [year |-> 2025, month |-> 6, day |-> 30]

----------------------------------------------------------------------------
(* Glue job: clean_data *)

\* The subsequence of rows at the positions in `keep`, in input order
RECURSIVE Rows(_, _, _)
Rows(df, keep, i) ==
    IF i > Len(df) THEN << >>
    ELSE (IF i \in keep THEN <<df[i]>> ELSE << >>) \o Rows(df, keep, i + 1)

\* Ascending order: row i sorts no later than row j (NULLs sort first)
SortsFirstAscending(df, i, j) ==
    \/ df[i].timestamp.null
    \/ ~df[j].timestamp.null /\ df[i].timestamp.v <= df[j].timestamp.v

\* F.desc('timestamp'): row i sorts no later than row j (NULLs sort last)
SortsFirst(df, i, j) ==
    \/ df[j].timestamp.null
    \/ ~df[i].timestamp.null /\ df[i].timestamp.v >= df[j].timestamp.v

\* Window.partitionBy('id'): the positions of the rows in the partition of row i
\* (NULL ids form one partition)
WindowPartition(df, i) == { j \in DOMAIN df : df[j].id = df[i].id }

\* Rows that can get row_number 1 in their partition: those no other row of the
\* partition sorts strictly before. The order among equal timestamps is whatever
\* order the rows reach the sort in, which Spark does not fix.
RowNumberOne(df, i) ==
    { j \in WindowPartition(df, i) :
        \A k \in WindowPartition(df, i) : SortsFirst(df, j, k) }

\* One row_number-1 row from every partition, in every possible way: the sets
\* of positions that can pass the filter row_num == 1
RECURSIVE Survivors(_, _)
Survivors(df, partitions) ==
    IF partitions = {} THEN { {} }
    ELSE LET p == CHOOSE q \in partitions : TRUE
             i == CHOOSE j \in p : TRUE
         IN  { rest \cup {j} :
                 rest \in Survivors(df, partitions \ {p}), j \in RowNumberOne(df, i) }

\* lines 64-71: every result the window / row_number / filter can give
DropDuplicates(df) ==
    { Rows(df, keep, 1) :
        keep \in Survivors(df, { WindowPartition(df, i) : i \in DOMAIN df }) }

\* line 74: the columns whose str(dataType) equals 'StringType'
StringCols(sch) ==
    IF stringTypeStr = "StringType"
    THEN (IF sch.hasId /\ sch.idType = "string" THEN {"id"} ELSE {}) \cup {"name"}
    ELSE {}

\* lines 75-76: F.trim over the string columns
TrimRow(row, cols) ==
    [ id        |-> IF "id" \in cols THEN Trim(row.id) ELSE row.id,
      timestamp |-> row.timestamp,
      name      |-> IF "name" \in cols THEN Trim(row.name) ELSE row.name ]

TrimStrings(df, sch) == [i \in DOMAIN df |-> TrimRow(df[i], StringCols(sch))]

\* line 79: na.drop(subset=['id']) when the table has an 'id' column
DropNullIds(df, sch) ==
    IF sch.hasId THEN Rows(df, { i \in DOMAIN df : ~df[i].id.null }, 1) ELSE df

\* line 64: the guard of the duplicate drop
DedupApplies(sch) == sch.hasId /\ sch.hasTs

\* lines 63-71: the results of the duplicate drop; the batch itself when the
\* table lacks 'id' or 'timestamp'
Dedupe(df, sch) == IF DedupApplies(sch) THEN DropDuplicates(df) ELSE {df}

\* lines 73-81: what follows the duplicate drop
TrimAndDrop(d, sch) == DropNullIds(TrimStrings(d, sch), sch)

\* lines 57-81: every DataFrame clean_data(df) can evaluate to
clean_data(df, sch) == { TrimAndDrop(d, sch) : d \in Dedupe(df, sch) }

----------------------------------------------------------------------------
(* Glue job: add_audit_columns, add_partitions *)

\* lines 88-93
add_audit_columns(df) ==
    [ i \in DOMAIN df |->
        [ id |-> df[i].id, timestamp |-> df[i].timestamp, name |-> df[i].name,
          job_run_id |-> "local" ] ]

\* lines 101-116
add_partitions(df, sch) ==
    [ i \in DOMAIN df |->
        [ id |-> df[i].id, timestamp |-> df[i].timestamp, name |-> df[i].name,
          job_run_id |-> df[i].job_run_id,
          year  |-> IF sch.hasTs THEN YearOf(df[i].timestamp) ELSE Num(ProcessingDate.year),
          month |-> IF sch.hasTs THEN MonthOf(df[i].timestamp) ELSE Num(ProcessingDate.month),
          day   |-> IF sch.hasTs THEN DayOfMonth(df[i].timestamp) ELSE Num(ProcessingDate.day) ] ]

\* The Glue job has not run
GlueNotStarted ==
    /\ schema = [hasId |-> TRUE, hasTs |-> TRUE, idType |-> "string"]
    /\ stringTypeStr = "StringType"
    /\ table = << >>
    /\ gpc = "idle"
    /\ raw_df = << >>
    /\ deduped = << >>
    /\ cleaned_df = << >>
    /\ deduped_again = << >>
    /\ with_audit = << >>
    /\ with_partitions = << >>
    /\ processed = << >>
    /\ row_count = NoCount

----------------------------------------------------------------------------
(* Inputs of the ingestion Lambda *)

\* The handler invocations of a behaviour
Invocations == DOMAIN pc

\* SourceConfig.name values
SourceNames == { <<"a">>, <<"b">>, <<"a", "b">>, <<"b", "_">> }

\* Source lists a secret can hold: names are unique within one list
SourceLists(max) ==
    { q \in UNION { [1 .. n -> SourceNames] : n \in 0 .. max } :
        \A i, j \in DOMAIN q : i # j => q[i] # q[j] }

\* Parsed bodies an endpoint can answer with: a JSON array or a JSON object
Payloads == { [isList |-> TRUE, items |-> <<1, 2>>],
              [isList |-> FALSE, items |-> <<>>] }

\* event.get('source_name'): falsy, or a requested name
Events == {None} \cup { <<"a">>, <<"b">> }

NoResponse == [statusCode |-> 0]

----------------------------------------------------------------------------
(* handler *)

RECURSIVE SelectSeq2(_, _)
\* [s for s in sources if s['name'] == wanted]
SelectSeq2(q, wanted) ==
    IF q = <<>> THEN <<>>
    ELSE (IF Head(q) = wanted THEN <<Head(q)>> ELSE <<>>)
         \o SelectSeq2(Tail(q), wanted)

\* The requested name is ignored
FilterSourcesIgnored(all, ev) == all

\* lines 186-188: the optional source-name filter
FilterSources(all, ev) == IF ev # None THEN SelectSeq2(all, ev) ELSE all

\* A binary status: the failures are not looked at
StatusCodeBinary(errs) == 200

\* line 206: 200 if not errors else 207
StatusCode(errs) == IF errs = <<>> THEN 200 ELSE 207

\* lines 205-215: the response built after the loop
BuildResponse(t, srcs, res, errs) ==
    [ statusCode |-> StatusCode(errs),
      body |-> [ timestamp     |-> isoformat(t),
                 total_sources |-> Len(srcs),
                 successful    |-> Len(res),
                 failed        |-> Len(errs),
                 results       |-> res,
                 errors        |-> errs ] ]

\* The fatal answer reported as a partial one
FatalResponseAsPartial(t, message) ==
    [ statusCode |-> 207,
      body |-> [ error |-> message, timestamp |-> isoformat(t) ] ]

\* lines 220-228: the response of the outer except
FatalResponse(t, message) ==
    [ statusCode |-> 500,
      body |-> [ error |-> message, timestamp |-> isoformat(t) ] ]

\* lines 156-161: process_source's return value
SuccessResult(source_name, data, key) ==
    [ source |-> source_name, status |-> "success",
      record_count |-> RecordCount(data), s3_key |-> key ]

\* lines 196-200: the entry appended to errors
ErrorEntry(source_name, message) ==
    [ source |-> source_name, status |-> "error", message |-> message ]

\* The state before any invocation, for the invocations in `runs`
InitIngest(lists, runs) ==
    /\ secret \in lists
    /\ clock = [date |-> 1, half |-> 0]
    /\ s3 = << >>
    /\ lastPut = << >>
    /\ puts = [r \in runs |-> 0]
    /\ requests = [r \in runs |-> << >>]
    /\ pc = [r \in runs |-> "idle"]
    /\ event = [r \in runs |-> None]
    /\ timestamp = [r \in runs |-> NoTime]
    /\ sources = [r \in runs |-> << >>]
    /\ idx = [r \in runs |-> 1]
    /\ results = [r \in runs |-> << >>]
    /\ errors = [r \in runs |-> << >>]
    /\ response = [r \in runs |-> NoResponse]

\* One invocation of the Lambda
Init == InitIngest(SourceLists(MaxSources), {1}) /\ GlueNotStarted

\* Two invocations, sequential or concurrent, sharing the secret and the bucket;
\* the secret configures sources among "a" and "b"
InitShared ==
    /\ InitIngest({ q \in SourceLists(MaxSources) :
                      \A i \in DOMAIN q : q[i] \in {<<"a">>, <<"b">>} }, {1, 2})
    /\ GlueNotStarted

\* Ticks the clock has made since the start
Ticks(c) == c.half + (c.date - 1)

\* Clock readings no earlier than c
Later(c) ==
    { d \in [date : 1 .. Len(Dates), half : 0 .. MaxTicks] :
        /\ d.date >= c.date
        /\ d.half >= c.half
        /\ Ticks(d) <= MaxTicks }

\* lines 175-179: after some time the Lambda is invoked again (invocations are
\* numbered in the order they start); timestamp = datetime.utcnow()
Invoke(r, ev, c) ==
    /\ pc[r] = "idle"
    /\ \A q \in Invocations : q < r => pc[q] # "idle"
    /\ c \in Later(clock)
    /\ clock' = c
    /\ pc' = [pc EXCEPT ![r] = "config"]
    /\ event' = [event EXCEPT ![r] = ev]
    /\ timestamp' = [timestamp EXCEPT ![r] = DateTime(c)]
    /\ UNCHANGED <<secret, s3, lastPut, puts, requests, sources, idx, results,
                   errors, response,
                   glueVars>>

\* lines 183-188: get_api_config() returns; sources are read and filtered
GetConfigOk(r) ==
    /\ pc[r] = "config"
    /\ sources' = [sources EXCEPT ![r] = FilterSources(secret, event[r])]
    /\ pc' = [pc EXCEPT ![r] = "loop"]
    /\ UNCHANGED <<secret, clock, s3, lastPut, puts, requests, event, timestamp,
                   idx, results, errors, response,
                   glueVars>>

\* lines 34-36, 220-228: get_api_config() raises; the outer except answers
GetConfigFails(r) ==
    /\ pc[r] = "config"
    /\ response' = [response EXCEPT ![r] = FatalResponse(timestamp[r], "ClientError")]
    /\ pc' = [pc EXCEPT ![r] = "fatal"]
    /\ UNCHANGED <<secret, clock, s3, lastPut, puts, requests, event, timestamp,
                   sources, idx, results, errors,
                   glueVars>>

\* lines 191-194: one source is fetched and landed
ProcessSourceOk(r, data) ==
    /\ pc[r] = "loop"
    /\ idx[r] <= Len(sources[r])
    /\ LET name == sources[r][idx[r]]
           key  == ObjectKey(name, timestamp[r])
           body == DataWithMetadata(data, name, timestamp[r])
       IN  /\ requests' = [requests EXCEPT ![r] = Append(@, name)]
           /\ s3' = PutObject(s3, key, body)
           /\ lastPut' = [k \in DOMAIN lastPut \cup {key} |->
                            IF k = key THEN [run |-> r, body |-> body] ELSE lastPut[k]]
           /\ puts' = [puts EXCEPT ![r] = @ + 1]
           /\ results' = [results EXCEPT ![r] = Append(@, SuccessResult(name, data, key))]
    /\ idx' = [idx EXCEPT ![r] = @ + 1]
    /\ UNCHANGED <<secret, clock, pc, event, timestamp, sources, errors, response,
                   glueVars>>

\* The fetch raises and no per-source except catches it: the outer except answers
FetchFailsUncaught(r) ==
    /\ pc[r] = "loop"
    /\ idx[r] <= Len(sources[r])
    /\ requests' = [requests EXCEPT ![r] = Append(@, sources[r][idx[r]])]
    /\ response' = [response EXCEPT ![r] = FatalResponse(timestamp[r], "RequestException")]
    /\ pc' = [pc EXCEPT ![r] = "fatal"]
    /\ UNCHANGED <<secret, clock, s3, lastPut, puts, event, timestamp, sources,
                   idx, results, errors, glueVars>>

\* lines 64-66, 195-202: the fetch raises; the source is recorded as failed
FetchFails(r) ==
    /\ pc[r] = "loop"
    /\ idx[r] <= Len(sources[r])
    /\ LET name == sources[r][idx[r]]
       IN  /\ requests' = [requests EXCEPT ![r] = Append(@, name)]
           /\ errors' = [errors EXCEPT ![r] = Append(@, ErrorEntry(name, "RequestException"))]
    /\ idx' = [idx EXCEPT ![r] = @ + 1]
    /\ UNCHANGED <<secret, clock, s3, lastPut, puts, pc, event, timestamp, sources,
                   results, response,
                   glueVars>>

\* lines 120-122, 195-202: put_object raises; the source is recorded as failed
LandFails(r) ==
    /\ pc[r] = "loop"
    /\ idx[r] <= Len(sources[r])
    /\ LET name == sources[r][idx[r]]
       IN  /\ requests' = [requests EXCEPT ![r] = Append(@, name)]
           /\ errors' = [errors EXCEPT ![r] = Append(@, ErrorEntry(name, "ClientError"))]
    /\ idx' = [idx EXCEPT ![r] = @ + 1]
    /\ UNCHANGED <<secret, clock, s3, lastPut, puts, pc, event, timestamp, sources,
                   results, response,
                   glueVars>>

\* lines 204-218: the loop is over; the response is built and returned
Return(r) ==
    /\ pc[r] = "loop"
    /\ idx[r] > Len(sources[r])
    /\ response' = [response EXCEPT ![r] =
                      BuildResponse(timestamp[r], sources[r], results[r], errors[r])]
    /\ pc' = [pc EXCEPT ![r] = "returned"]
    /\ UNCHANGED <<secret, clock, s3, lastPut, puts, requests, event, timestamp,
                   sources, idx, results, errors,
                   glueVars>>

Next ==
    \/ \E r \in Invocations, ev \in Events :
          \E c \in [date : 1 .. Len(Dates), half : 0 .. MaxTicks] : Invoke(r, ev, c)
    \/ \E r \in Invocations : GetConfigOk(r)
    \/ \E r \in Invocations : GetConfigFails(r)
    \/ \E r \in Invocations, data \in Payloads : ProcessSourceOk(r, data)
    \/ \E r \in Invocations : FetchFails(r)
    \/ \E r \in Invocations : LandFails(r)
    \/ \E r \in Invocations : Return(r)

Spec == Init /\ [][Next]_vars

SpecShared == InitShared /\ [][Next]_vars

----------------------------------------------------------------------------
(* Properties of the ingestion Lambda *)

\* The 'source' fields of a sequence of result or error entries
SourceOf(entries) == [i \in DOMAIN entries |-> entries[i].source]

\* How often name occurs in a sequence of names
Occurrences(names, name) == Cardinality({ i \in DOMAIN names : names[i] = name })

\* The positions of the loop that are over
Attempted(r) == 1 .. (idx[r] - 1)

\* The object of source `name` landed by invocation r is in the bucket
Landed(r, name) == ObjectKey(name, timestamp[r]) \in DOMAIN s3

\* C1: partial-failure containment. While and after the loop runs, every source
\* before the loop position was requested, in order and none skipped; each has
\* exactly one entry: in results when its object was landed, in errors (under
\* its own name) when not; the run returns only after the last source, and the
\* fatal answer is given only when no source was attempted.
C1_PartialFailureContainment ==
    \A r \in Invocations :
        /\ pc[r] \in {"loop", "returned"} =>
             /\ requests[r] = SubSeq(sources[r], 1, idx[r] - 1)
             /\ Len(results[r]) + Len(errors[r]) = idx[r] - 1
             /\ \A i \in Attempted(r) :
                  LET name == sources[r][i]
                  IN  IF Landed(r, name)
                      THEN /\ Occurrences(SourceOf(results[r]), name) = 1
                           /\ Occurrences(SourceOf(errors[r]), name) = 0
                      ELSE /\ Occurrences(SourceOf(results[r]), name) = 0
                           /\ Occurrences(SourceOf(errors[r]), name) = 1
        /\ pc[r] = "returned" => idx[r] = Len(sources[r]) + 1
        /\ pc[r] = "fatal" => requests[r] = << >> /\ errors[r] = << >>

\* C1 witness: three sources, the fetch of the second failed, the run returned
\* with the first and the third as successes
C1_Witness ==
    /\ pc[1] = "returned"
    /\ Len(sources[1]) = 3
    /\ SourceOf(results[1]) = <<sources[1][1], sources[1][3]>>
    /\ SourceOf(errors[1]) = <<sources[1][2]>>
    /\ errors[1][1].message = "RequestException"
    /\ response[1].body.total_sources = 3

\* The sources of the secret that pass the name filter of the event
Selected(r) == { i \in DOMAIN secret : event[r] = None \/ secret[i] = event[r] }

\* C2: every report returned after the loop has successful + failed =
\* total_sources = the number of configured sources passing the name filter,
\* and each of these sources occurs once in results and errors together.
C2_ReportCounts ==
    \A r \in Invocations :
        pc[r] = "returned" =>
            LET body == response[r].body
            IN  /\ body.total_sources = Cardinality(Selected(r))
                /\ Len(body.results) + Len(body.errors) = body.total_sources
                /\ body.successful = Len(body.results)
                /\ body.failed = Len(body.errors)
                /\ \A i \in Selected(r) :
                      Occurrences(SourceOf(body.results), secret[i])
                      + Occurrences(SourceOf(body.errors), secret[i]) = 1
                /\ \A i \in DOMAIN secret \ Selected(r) :
                      Occurrences(SourceOf(body.results), secret[i])
                      + Occurrences(SourceOf(body.errors), secret[i]) = 0

\* C2 witness: a returned run whose event named one of three configured sources
C2_Witness ==
    /\ pc[1] = "returned"
    /\ event[1] # None
    /\ Len(secret) = 3
    /\ response[1].body.total_sources = 1
    /\ response[1].body.failed = 1

\* C3: the status is three-way. A run that reached the end of the loop answers
\* 200 exactly when errors is empty and 207 exactly when it is not; a run stopped
\* by a fatal error answers 500, and only such a run does; a run with a recorded
\* per-source failure never answers 500.
C3_ThreeWayStatus ==
    \A r \in Invocations :
        /\ pc[r] = "returned" =>
             /\ response[r].statusCode \in {200, 207}
             /\ response[r].statusCode = 200 <=> errors[r] = << >>
             /\ response[r].statusCode = 207 <=> errors[r] # << >>
        /\ pc[r] = "fatal" => response[r].statusCode = 500
        /\ response[r].statusCode = 500 => pc[r] = "fatal" /\ errors[r] = << >>
        /\ pc[r] \notin {"returned", "fatal"} => response[r] = NoResponse

\* C3 witness: a run with one success and one failure returned 207
C3_Witness ==
    /\ pc[1] = "returned"
    /\ Len(results[1]) = 1
    /\ Len(errors[1]) = 1
    /\ response[1].statusCode = 207

\* C4: fatal short-circuit. A run whose configuration retrieval failed gives the
\* distinct 500 answer, carrying no report; it has issued no request to any
\* source and stored no object.
C4_FatalShortCircuit ==
    \A r \in Invocations :
        pc[r] = "fatal" =>
            /\ response[r].statusCode = 500
            /\ DOMAIN response[r].body = {"error", "timestamp"}
            /\ requests[r] = << >>
            /\ puts[r] = 0
            /\ results[r] = << >>
            /\ \A k \in DOMAIN lastPut : lastPut[k].run # r

\* C4 witness: the retrieval failed although sources are configured
C4_Witness ==
    /\ pc[1] = "fatal"
    /\ Len(secret) >= 2
    /\ s3 = << >>

\* The invocations that have read the clock
Started == { r \in Invocations : pc[r] # "idle" }

\* The landings made so far: invocation, source and object key of each success
Landings ==
    UNION { { [run |-> r, source |-> results[r][i].source, key |-> results[r][i].s3_key] :
              i \in DOMAIN results[r] } : r \in Invocations }

\* C8: the object key is decided by the source name and the ingestion timestamp
\* cut to the second. For any two sources and any two started invocations the
\* keys are equal exactly when the names are equal and the timestamps fall in
\* the same second; so two landings of one source in one second share a key and
\* the bucket holds one object for them, the one put last, while landings that
\* differ in source or in second are kept as separate objects.
C8_KeyDeterminismAndOverwrite ==
    LET keys == { [run |-> r, source |-> n, key |-> ObjectKey(n, timestamp[r]),
                   second |-> TruncSecond(timestamp[r])] :
                  r \in Started, n \in SourceNames }
        isos == { [run |-> r, iso |-> isoformat(timestamp[r])] : r \in Started }
    IN  /\ \A x, y \in keys :
              x.key = y.key <=> x.source = y.source /\ x.second = y.second
        /\ \A a \in Landings :
              /\ \E x \in keys : x.run = a.run /\ x.source = a.source /\ x.key = a.key
              /\ a.key \in DOMAIN s3
              /\ s3[a.key] = lastPut[a.key].body
              /\ s3[a.key].metadata.source = a.source
              /\ \E i \in isos : /\ i.run = lastPut[a.key].run
                                 /\ i.iso = s3[a.key].metadata.ingestion_time
        /\ DOMAIN s3 = { a.key : a \in Landings }
        /\ Cardinality(DOMAIN s3) =
              Cardinality({ <<a.source, TruncSecond(timestamp[a.run])>> : a \in Landings })

\* C8 witness: two invocations within one second, at different microseconds,
\* both landed the same source; the bucket holds a single object, and it is the
\* one of the invocation that started first (its put came last)
C8_Witness ==
    /\ pc[1] = "returned" /\ pc[2] = "returned"
    /\ timestamp[1] # timestamp[2]
    /\ TruncSecond(timestamp[1]) = TruncSecond(timestamp[2])
    /\ Len(results[1]) = 1 /\ Len(results[2]) = 1
    /\ results[1][1].s3_key = results[2][1].s3_key
    /\ Cardinality(DOMAIN s3) = 1
    /\ lastPut[results[1][1].s3_key].run = 1
    /\ s3[results[1][1].s3_key].metadata.ingestion_time = isoformat(timestamp[1])

----------------------------------------------------------------------------
(* Glue job: main *)

\* Catalog tables: which of 'id' and 'timestamp' exist, and the type of 'id'
Schemas ==
    { sch \in [hasId : BOOLEAN, hasTs : BOOLEAN, idType : {"string", "long"}] :
        ~sch.hasId => sch.idType = "string" }

\* Values of the 'id' column (NULL throughout when the column does not exist)
IdValues(sch) ==
    IF ~sch.hasId THEN {NullStr}
    ELSE IF sch.idType = "string"
         THEN {NullStr, Str(<<"a">>), Str(<<" ", "a">>), Str(<<"b">>)}
         ELSE {NullNum, Num(1), Num(2)}

\* Values of the 'timestamp' column: NULL or an index into EventDates
TimestampValues(sch) == IF ~sch.hasTs THEN {NullNum} ELSE {NullNum, Num(1), Num(2)}

NameValues == {Str(<<"x">>), Str(<<"y", " ">>)}

RawRecords(sch) ==
    [id : IdValues(sch), timestamp : TimestampValues(sch), name : NameValues]

Tables(sch) == UNION { [1 .. n -> RawRecords(sch)] : n \in 0 .. MaxBatch }

\* Ten raw records: ids 1 and 1 share a key, one id is missing
ExampleSchema == [hasId |-> TRUE, hasTs |-> TRUE, idType |-> "long"]

ExampleIds == << Num(1), Num(1), Num(2), Num(3), Num(4), Num(5), Num(6), Num(7),
                 Num(8), NullNum >>

ExampleTable ==
    [ i \in DOMAIN ExampleIds |->
        [id |-> ExampleIds[i], timestamp |-> Num(1 + (i % 2)), name |-> Str(<<"x">>)] ]

InitGlue ==
    /\ InitIngest({<< >>}, {1})
    /\ stringTypeStr \in {"StringType", "StringType()"}
    /\ \/ schema \in Schemas /\ table \in Tables(schema)
       \/ schema = ExampleSchema /\ table = ExampleTable
    /\ gpc = "start"
    /\ raw_df = << >>
    /\ deduped = << >>
    /\ cleaned_df = << >>
    /\ deduped_again = << >>
    /\ with_audit = << >>
    /\ with_partitions = << >>
    /\ processed = << >>
    /\ row_count = NoCount

\* lines 164-165: raw_df = read_raw_data()
ReadRawData ==
    /\ gpc = "start"
    /\ raw_df' = table
    /\ gpc' = "read"
    /\ UNCHANGED <<schema, stringTypeStr, table, deduped, cleaned_df, with_audit,
                   with_partitions, processed, row_count, deduped_again,
                   ingestVars>>

\* line 168: cleaned_df = clean_data(raw_df)
CleanData ==
    /\ gpc = "read"
    /\ \E d \in Dedupe(raw_df, schema) :
          /\ deduped' = d
          /\ cleaned_df' = TrimAndDrop(d, schema)
    /\ gpc' = "cleaned"
    /\ UNCHANGED <<schema, stringTypeStr, table, raw_df, with_audit,
                   with_partitions, processed, row_count, deduped_again,
                   ingestVars>>

\* line 169: with_audit = add_audit_columns(cleaned_df)
AddAuditColumns ==
    /\ gpc = "cleaned"
    /\ with_audit' = add_audit_columns(cleaned_df)
    /\ gpc' = "audited"
    /\ UNCHANGED <<schema, stringTypeStr, table, raw_df, deduped, cleaned_df,
                   with_partitions, processed, row_count, deduped_again,
                   ingestVars>>

\* line 170: with_partitions = add_partitions(with_audit)
AddPartitions ==
    /\ gpc = "audited"
    /\ with_partitions' = add_partitions(with_audit, schema)
    /\ gpc' = "partitioned"
    /\ UNCHANGED <<schema, stringTypeStr, table, raw_df, deduped, cleaned_df, with_audit,
                   processed, row_count, deduped_again, ingestVars>>

\* The rows are written and the input rows are counted
WriteProcessedDataCountsInput ==
    /\ gpc = "partitioned"
    /\ processed' = with_partitions
    /\ deduped_again' = deduped
    /\ row_count' = Len(raw_df)
    /\ gpc' = "done"
    /\ UNCHANGED <<schema, stringTypeStr, table, raw_df, deduped, cleaned_df, with_audit,
                   with_partitions, ingestVars>>

\* lines 119-142, 173-176: the rows are written, then df.count() evaluates the
\* DataFrame once more (nothing is cached) and its result is the row count
WriteProcessedData ==
    /\ gpc = "partitioned"
    /\ processed' = with_partitions
    /\ \E again \in Dedupe(raw_df, schema) :
          /\ deduped_again' = again
          /\ row_count' =
                Len(add_partitions(add_audit_columns(TrimAndDrop(again, schema)), schema))
    /\ gpc' = "done"
    /\ UNCHANGED <<schema, stringTypeStr, table, raw_df, deduped, cleaned_df, with_audit,
                   with_partitions, ingestVars>>

NextGlue ==
    \/ ReadRawData
    \/ CleanData
    \/ AddAuditColumns
    \/ AddPartitions
    \/ WriteProcessedData

SpecGlue == InitGlue /\ [][NextGlue]_vars

----------------------------------------------------------------------------
(* Properties of the Glue job *)

\* clean_data has run
Cleaned == gpc \notin {"start", "read"}

\* C5: dedup. When the table has both 'id' and 'timestamp': no two rows after
\* the duplicate drop share an id, every id of the input (NULL included) has
\* exactly one surviving row, the survivor is one of the input rows, and no input
\* row of its id has a later timestamp. When one of the columns is missing the
\* duplicate drop returns the batch unchanged.
C5_Dedup ==
    Cleaned =>
        IF DedupApplies(schema)
        THEN /\ \A i, j \in DOMAIN deduped :
                   i # j => deduped[i].id # deduped[j].id
             /\ \A i \in DOMAIN raw_df :
                   Cardinality({ j \in DOMAIN deduped : deduped[j].id = raw_df[i].id }) = 1
             /\ \A j \in DOMAIN deduped :
                   /\ \E i \in DOMAIN raw_df : raw_df[i] = deduped[j]
                   /\ \A i \in DOMAIN raw_df :
                         raw_df[i].id = deduped[j].id =>
                            \/ raw_df[i].timestamp.null
                            \/ /\ ~deduped[j].timestamp.null
                               /\ deduped[j].timestamp.v >= raw_df[i].timestamp.v
        ELSE deduped = raw_df

\* C5 witness: two rows of one id, the earlier one first; the later one survives
C5_Witness ==
    /\ Cleaned
    /\ DedupApplies(schema)
    /\ Len(raw_df) = 2
    /\ raw_df[1].id = raw_df[2].id
    /\ ~raw_df[1].id.null
    /\ raw_df[1].timestamp = Num(1)
    /\ raw_df[2].timestamp = Num(2)
    /\ deduped = <<raw_df[2]>>

\* C6: every row that reaches the partitioned write has a (year, month, day)
\* that is not NULL: the date of its own timestamp when it has one, the
\* processing date when it has none.
C6_PartitionTotal ==
    gpc \in {"partitioned", "done"} =>
        \A i \in DOMAIN with_partitions :
            LET row == with_partitions[i]
            IN  /\ ~row.year.null /\ ~row.month.null /\ ~row.day.null
                /\ IF schema.hasTs /\ ~row.timestamp.null
                   THEN <<row.year.v, row.month.v, row.day.v>> =
                          << EventDates[row.timestamp.v].year,
                             EventDates[row.timestamp.v].month,
                             EventDates[row.timestamp.v].day >>
                   ELSE <<row.year.v, row.month.v, row.day.v>> =
                          << ProcessingDate.year, ProcessingDate.month,
                             ProcessingDate.day >>

\* The rows a run must write: one per id that is not NULL when duplicates are
\* dropped, the rows whose id is not NULL when they are not, every row when the
\* table has no 'id'
ExpectedRows(t, sch) ==
    IF ~sch.hasId THEN Len(t)
    ELSE IF sch.hasTs
         THEN Cardinality({ t[i].id : i \in { k \in DOMAIN t : ~t[k].id.null } })
         ELSE Cardinality({ k \in DOMAIN t : ~t[k].id.null })

\* C7: the reported row count is the number of rows written: the input count
\* less the rows the duplicate drop collapsed less the rows dropped for a NULL
\* id; for the ten-record example it is 8.
C7_RowCountHonest ==
    gpc = "done" =>
        /\ row_count = Len(processed)
        /\ row_count = ExpectedRows(table, schema)
        /\ row_count = Len(table) - (Len(raw_df) - Len(deduped))
                                  - (Len(deduped) - Len(cleaned_df))
        /\ (table = ExampleTable /\ schema = ExampleSchema) => row_count = 8

\* C7 witness: the ten-record example was transformed and 8 rows were reported
C7_Witness ==
    /\ gpc = "done"
    /\ table = ExampleTable
    /\ Len(raw_df) = 10
    /\ Len(deduped) = 9
    /\ Len(processed) = 8
    /\ row_count = 8

\* C9: for tables with both 'id' and 'timestamp', no two rows that clean_data
\* hands on have the same id, also when the ids are strings that differ only in
\* leading or trailing spaces.
C9_OneRecordPerKey ==
    (Cleaned /\ DedupApplies(schema)) =>
        \A i, j \in DOMAIN cleaned_df :
            i # j => cleaned_df[i].id # cleaned_df[j].id

\* C10: two evaluations of the duplicate drop on the same batch in the same
\* order (the one that is written and the one that is counted) keep the same rows.
C10_TieBreakDeterministic ==
    gpc = "done" => deduped_again = deduped

====
